---- MODULE Spec2Model ----
(***************************************************************************)
(* HL7 ingestion, encounter correlation, readiness and codable packets of  *)
(* MedCode.  The message handlers are those of the product specification   *)
(* (process_adt_a01, process_adt_a03, process_dft_p03,                     *)
(* generate_codable_packets, is_duplicate_message, handle_late_charge,     *)
(* close_stale_encounters); the operator endpoints the front end calls     *)
(* (ready-to-code, refresh-snapshot, assign, complete) and the cancel      *)
(* handler have no body in the repository and follow the design text.      *)
(* The front end follows its React components and hooks: ManageDataPanel,  *)
(* SplitPane, CodingPanel with DiagnosisEntry and ProcedureEntry,          *)
(* CodingWorkbenchPage with useCodingQueue, and useAuth with               *)
(* ProtectedRoute.                                                         *)
(***************************************************************************)
EXTENDS Integers, Sequences, FiniteSets, TLC

VARIABLES
    db,               \* the tables: encounters, charges, clinical_orders,
                      \* codable_packets, snapshots
    hl7_message_log,  \* per control id, the number of log rows of each processing_status
    workers,          \* ingestion requests in flight: the message each one holds
                      \* and what its encounter lookup returned
    requests,         \* requests and events accepted so far
    sweep_todo,       \* close_stale_encounters: the encounters its query returned
    refreshers,       \* refresh-snapshot requests in flight
    manageDataPanel,  \* ManageDataPanel: its props, its state and the uploads it issued
    codingPanel,      \* CodingPanel: billing component, diagnoses, procedures
    splitPane,        \* SplitPane: leftWidth and isDragging
    queryClient,      \* the browser's session: token, query cache, requests in flight
    workbench         \* CodingWorkbenchPage: the queue item behind it, its mutations

\* The state of the front end; the server's handlers leave it alone.
frontend == <<manageDataPanel, codingPanel, splitPane, queryClient, workbench>>

\* The state of the server; the front end's components leave it alone.
backend == <<db, hl7_message_log, workers, requests, sweep_todo, refreshers>>

vars == <<db, hl7_message_log, workers, requests, sweep_todo, refreshers,
          manageDataPanel, codingPanel, splitPane, queryClient, workbench>>

---------------------------------------------------------------------------
\* Bounds of the model

MaxRequests == 4

\* The charges posted in the behaviours that explore charge classification.
MaxCharges == 2

---------------------------------------------------------------------------
\* Domain values

PvIds == {"V1", "V2"}
Workers == {"w1", "w2"}
Operators == {"u1", "u2"}

OPEN == "OPEN"
DISCHARGED == "DISCHARGED"
PENDING_CODING == "PENDING_CODING"
CODING_IN_PROGRESS == "CODING_IN_PROGRESS"
CODING_COMPLETE == "CODING_COMPLETE"
BILLED == "BILLED"
CANCELLED == "CANCELLED"
NONE == "NONE"

EncounterStatus ==
    {OPEN, DISCHARGED, PENDING_CODING, CODING_IN_PROGRESS, CODING_COMPLETE, BILLED, CANCELLED}

ProcessingStatus == {"PROCESSED", "FAILED", "IGNORED", "DUPLICATE"}

ChargeType == {"FACILITY", "PROFEE", "BOTH"}

PacketType == {"FACILITY", "PROFEE"}

PacketStatus == {"PENDING", "READY", "ASSIGNED", "COMPLETE", "ON_HOLD", "CANCELLED"}

\* The provider registry of the hospital: NPI -> employment_type.
NPIProvider ==
    [npi \in {"NPI_EMP", "NPI_IND"} |->
        IF npi = "NPI_EMP" THEN "HOSPITAL_EMPLOYED" ELSE "INDEPENDENT_CONTRACTOR"]

\* HospitalConfiguration defaults.
code_emergency_visits == TRUE
code_outpatient_visits == FALSE

\* Column defaults of an Encounter row that no handler has computed.
default_facility_coding_required == TRUE
default_profee_coding_required == FALSE

---------------------------------------------------------------------------
\* The messages the source systems send.  The content of a message is fixed
\* by its control id (MSH-10): a redelivery carries the same text.

FT1(rev, mod, npi, em) ==
    [revenue_code |-> rev, procedure_modifier |-> mod,
     performing_provider_npi |-> npi, em_code |-> em]

Message(type, pv, ok, class, npi, ft1s) ==
    [message_type |-> type, pv_id |-> pv, well_formed |-> ok,
     patient_class |-> class, attending_provider_npi |-> npi, ft1 |-> ft1s,
     filler_order_number |-> ""]

\* An ORM^O01 or ORU^R01 message: OBR-3 carries the filler order number.
OrderMessage(type, pv, filler) ==
    [Message(type, pv, TRUE, "", "", <<>>) EXCEPT !.filler_order_number = filler]

Messages ==
    [MSG001 |-> Message("ADT^A01", "V1", TRUE, "I", "", <<>>),
     MSG002 |-> Message("ADT^A03", "V1", TRUE, "", "", <<>>),
     MSG003 |-> Message("ADT^A03", "V1", TRUE, "", "", <<>>),
     MSG004 |-> Message("DFT^P03", "V1", TRUE, "", "",
                        <<FT1(TRUE, "", "", FALSE)>>),
     MSG005 |-> Message("ADT^A11", "V1", TRUE, "", "", <<>>),
     MSG006 |-> Message("ADT^A01", "", FALSE, "I", "", <<>>),
     MSG007 |-> Message("ADT^A01", "V1", TRUE, "E", "NPI_EMP", <<>>),
     MSG008 |-> Message("ADT^A01", "V2", TRUE, "I", "", <<>>),
     MSG009 |-> OrderMessage("ORM^O01", "V1", "F1"),
     MSG010 |-> OrderMessage("ORU^R01", "V1", "F1"),
     MSG011 |-> Message("SIU^S12", "V1", TRUE, "", "", <<>>)]

ControlIds == DOMAIN Messages

---------------------------------------------------------------------------
\* Rows

NotRefreshing == [item |-> 0, version |-> 0]

NoEncounter ==
    [status |-> NONE, patient_class |-> "", attending_provider_npi |-> "",
     facility_coding_required |-> FALSE, profee_coding_required |-> FALSE,
     needs_review |-> FALSE, review_reason |-> "", ready_to_code_reason |-> "",
     updated_at_old |-> FALSE, rows |-> 0]

Exists(d, pv) == d.encounters[pv].status # NONE

\* db.session.commit() of a changed Encounter row: updated_at becomes now.
SaveEncounter(d, pv, enc) ==
    [d EXCEPT !.encounters[pv] = [enc EXCEPT !.updated_at_old = FALSE]]

Indices(s) == [i \in 1..Len(s) |-> i]

\* db.query(Charge).filter_by(encounter_id=..., charge_type=...).all(), as charge ids
ChargesOf(d, pv, type) ==
    LET Match(i) == d.charges[i].encounter = pv /\ d.charges[i].charge_type = type
    IN  SelectSeq(Indices(d.charges), Match)

SnapshotsOf(d, pv) == {i \in 1..Len(d.snapshots) : d.snapshots[i].encounter = pv}

MaxOf(S) == IF S = {} THEN 0 ELSE CHOOSE m \in S : \A x \in S : x <= m

\* The version a new Snapshot of the encounter takes: one above the highest issued.
NextVersion(d, pv) == MaxOf({d.snapshots[i].version : i \in SnapshotsOf(d, pv)}) + 1

---------------------------------------------------------------------------
\* ADT^A01

should_create_facility_packet(enc) ==
    IF enc.patient_class \in {"I", "O"} THEN TRUE
    ELSE IF enc.patient_class = "E" THEN code_emergency_visits
    ELSE IF enc.patient_class = "O" THEN code_outpatient_visits
    ELSE FALSE

should_create_profee_packet(enc) ==
    IF enc.attending_provider_npi = "" THEN FALSE
    ELSE IF enc.attending_provider_npi \notin DOMAIN NPIProvider THEN FALSE
    ELSE NPIProvider[enc.attending_provider_npi] = "HOSPITAL_EMPLOYED"

process_adt_a01(d, m) ==
    LET pv == m.pv_id
        existing == IF Exists(d, pv) THEN d.encounters[pv] ELSE NoEncounter
        e1 == [existing EXCEPT !.patient_class = m.patient_class,
                               !.attending_provider_npi = m.attending_provider_npi,
                               !.status = OPEN,
                               !.rows = 1]
        e2 == [e1 EXCEPT !.facility_coding_required = should_create_facility_packet(e1),
                         !.profee_coding_required = should_create_profee_packet(e1)]
    IN  SaveEncounter(d, pv, e2)

---------------------------------------------------------------------------
\* Codable packets

\* The packet row committed without its data.
NewPacket_without_data(d, pv, type, data) ==
    [d EXCEPT
        !.packets = Append(@, [encounter |-> pv, packet_type |-> type,
                               status |-> "READY",
                               snapshot_version |-> NextVersion(d, pv)])]

NewPacket(d, pv, type, data) ==
    LET v == NextVersion(d, pv)
    IN  [d EXCEPT
            !.packets = Append(@, [encounter |-> pv, packet_type |-> type,
                                   status |-> "READY", snapshot_version |-> v]),
            !.snapshots = Append(@, [encounter |-> pv, version |-> v,
                                     charges_data |-> data])]

create_facility_codable_packet(d, pv) ==
    NewPacket(d, pv, "FACILITY", ChargesOf(d, pv, "FACILITY") \o ChargesOf(d, pv, "BOTH"))

\* existing_em: a PROFEE charge of the encounter whose procedure_code is like '992%'
HasEmCharge(d, pv) ==
    \E i \in 1..Len(d.charges) :
        /\ d.charges[i].encounter = pv
        /\ d.charges[i].charge_type = "PROFEE"
        /\ d.charges[i].em_code

create_em_placeholder_charge(d, pv) ==
    IF HasEmCharge(d, pv) THEN d
    ELSE IF d.encounters[pv].patient_class \in {"I", "E"}
    THEN [d EXCEPT !.charges =
            Append(@, [encounter |-> pv, charge_type |-> "PROFEE",
                       revenue_code |-> FALSE, procedure_modifier |-> "",
                       performing_provider_npi |->
                           d.encounters[pv].attending_provider_npi,
                       em_code |-> FALSE, source |-> "EM"])]
    ELSE d

create_profee_codable_packet(d, pv) ==
    LET all_charges == ChargesOf(d, pv, "PROFEE") \o ChargesOf(d, pv, "BOTH")
        d1 == create_em_placeholder_charge(d, pv)
        em == IF Len(d1.charges) > Len(d.charges) THEN <<Len(d1.charges)>> ELSE <<>>
    IN  NewPacket(d1, pv, "PROFEE", all_charges \o em)

generate_codable_packets(d, pv) ==
    LET enc == d.encounters[pv]
        d1 == IF enc.facility_coding_required
              THEN create_facility_codable_packet(d, pv) ELSE d
        d2 == IF enc.profee_coding_required
              THEN create_profee_codable_packet(d1, pv) ELSE d1
    IN  IF enc.facility_coding_required \/ enc.profee_coding_required
        THEN SaveEncounter(d2, pv, [d2.encounters[pv] EXCEPT !.status = PENDING_CODING])
        ELSE d2

---------------------------------------------------------------------------
\* ADT^A03

\* The encounter created from the discharge without the review flag.
create_encounter_from_discharge_unflagged(d, m) ==
    SaveEncounter(d, m.pv_id,
        [NoEncounter EXCEPT
            !.status = DISCHARGED,
            !.rows = 1,
            !.facility_coding_required = default_facility_coding_required,
            !.profee_coding_required = default_profee_coding_required])

create_encounter_from_discharge(d, m) ==
    SaveEncounter(d, m.pv_id,
        [NoEncounter EXCEPT
            !.status = DISCHARGED,
            !.rows = 1,
            !.facility_coding_required = default_facility_coding_required,
            !.profee_coding_required = default_profee_coding_required,
            !.needs_review = TRUE,
            !.review_reason = "Created from discharge message (admit message not received)"])

process_adt_a03(d, m) ==
    LET pv == m.pv_id
        d1 == IF Exists(d, pv) THEN d ELSE create_encounter_from_discharge(d, m)
        d2 == SaveEncounter(d1, pv, [d1.encounters[pv] EXCEPT !.status = DISCHARGED])
    IN  generate_codable_packets(d2, pv)

---------------------------------------------------------------------------
\* DFT^P03 and late charges

\* The modifier looked at before the revenue code.
determine_charge_type_modifier_first(charge) ==
    IF charge.procedure_modifier = "26" THEN "PROFEE"
    ELSE IF charge.procedure_modifier = "TC" THEN "FACILITY"
    ELSE IF charge.revenue_code THEN "FACILITY"
    ELSE IF /\ charge.performing_provider_npi # ""
            /\ charge.performing_provider_npi \in DOMAIN NPIProvider
            /\ NPIProvider[charge.performing_provider_npi] = "HOSPITAL_EMPLOYED"
    THEN "BOTH"
    ELSE "FACILITY"

determine_charge_type(charge) ==
    IF charge.revenue_code THEN "FACILITY"
    ELSE IF charge.procedure_modifier = "26" THEN "PROFEE"
    ELSE IF charge.procedure_modifier = "TC" THEN "FACILITY"
    ELSE IF /\ charge.performing_provider_npi # ""
            /\ charge.performing_provider_npi \in DOMAIN NPIProvider
            /\ NPIProvider[charge.performing_provider_npi] = "HOSPITAL_EMPLOYED"
    THEN "BOTH"
    ELSE "FACILITY"

RECURSIVE AddCharges(_, _, _, _)
AddCharges(charges, pv, cid, ft1s) ==
    IF ft1s = <<>> THEN charges
    ELSE AddCharges(
            Append(charges, [encounter |-> pv,
                             charge_type |-> determine_charge_type(Head(ft1s)),
                             revenue_code |-> Head(ft1s).revenue_code,
                             procedure_modifier |-> Head(ft1s).procedure_modifier,
                             performing_provider_npi |->
                                 Head(ft1s).performing_provider_npi,
                             em_code |-> Head(ft1s).em_code,
                             source |-> cid]),
            pv, cid, Tail(ft1s))

process_dft_p03(d, m, cid) ==
    IF ~Exists(d, m.pv_id) THEN d
    ELSE [d EXCEPT !.charges = AddCharges(@, m.pv_id, cid, m.ft1)]

\* The late charge answered with a refresh: the first READY packet of its type
\* gets a new snapshot version.
handle_late_charge_refreshing(d, c) ==
    LET charge == d.charges[c]
        pv == charge.encounter
        takes == {i \in 1..Len(d.packets) :
                    /\ d.packets[i].encounter = pv
                    /\ d.packets[i].status = "READY"
                    /\ d.packets[i].packet_type = charge.charge_type}
    IN  IF takes = {} THEN d
        ELSE LET i == CHOOSE x \in takes : \A y \in takes : x <= y
                 v == NextVersion(d, pv)
             IN  [d EXCEPT
                    !.snapshots =
                        Append(@, [encounter |-> pv, version |-> v,
                                   charges_data |->
                                      ChargesOf(d, pv, charge.charge_type)
                                          \o ChargesOf(d, pv, "BOTH")]),
                    !.packets[i].snapshot_version = v]

\* The packets selected by status only, without the encounter filter.
handle_late_charge_any_encounter(d, c) ==
    LET charge == d.charges[c]
        Takes(p) ==
            /\ p.status = "READY"
            /\ \/ charge.charge_type = "FACILITY" /\ p.packet_type = "FACILITY"
               \/ charge.charge_type = "PROFEE" /\ p.packet_type = "PROFEE"
        Held(s) ==
            \E i \in 1..Len(d.packets) :
                /\ Takes(d.packets[i])
                /\ d.packets[i].snapshot_version = s.version
                /\ d.packets[i].encounter = s.encounter
    IN  [d EXCEPT !.snapshots =
            [i \in 1..Len(d.snapshots) |->
                IF Held(d.snapshots[i])
                THEN [d.snapshots[i] EXCEPT !.charges_data = Append(@, c)]
                ELSE d.snapshots[i]]]

\* packet.charges_data.append(serialize_charge(charge)) on the READY packets of the
\* charge's encounter whose type is the charge's type
handle_late_charge(d, c) ==
    LET charge == d.charges[c]
        Takes(p) ==
            /\ p.encounter = charge.encounter
            /\ p.status = "READY"
            /\ \/ charge.charge_type = "FACILITY" /\ p.packet_type = "FACILITY"
               \/ charge.charge_type = "PROFEE" /\ p.packet_type = "PROFEE"
        Held(s) ==
            \E i \in 1..Len(d.packets) :
                /\ Takes(d.packets[i])
                /\ d.packets[i].snapshot_version = s.version
                /\ s.encounter = charge.encounter
    IN  [d EXCEPT !.snapshots =
            [i \in 1..Len(d.snapshots) |->
                IF Held(d.snapshots[i])
                THEN [d.snapshots[i] EXCEPT !.charges_data = Append(@, c)]
                ELSE d.snapshots[i]]]

RECURSIVE HandleLateCharges(_, _, _)
HandleLateCharges(d, from, to) ==
    IF from > to THEN d
    ELSE HandleLateCharges(handle_late_charge(d, from), from + 1, to)

\* A charge posting: the charges are stored, then each is offered to the packets
\* that already exist.
PostCharges(d, m, cid) ==
    LET d1 == process_dft_p03(d, m, cid)
    IN  HandleLateCharges(d1, Len(d.charges) + 1, Len(d1.charges))

---------------------------------------------------------------------------
\* ADT^A11

process_cancel(d, m) ==
    IF ~Exists(d, m.pv_id) THEN d
    ELSE LET d1 == SaveEncounter(d, m.pv_id,
                        [d.encounters[m.pv_id] EXCEPT !.status = CANCELLED])
         IN  [d1 EXCEPT !.packets =
                [i \in 1..Len(d1.packets) |->
                    IF d1.packets[i].encounter = m.pv_id /\ d1.packets[i].status = "READY"
                    THEN [d1.packets[i] EXCEPT !.status = "CANCELLED"]
                    ELSE d1.packets[i]]]

---------------------------------------------------------------------------
\* ORM^O01 and ORU^R01

process_orm_o01(d, m) ==
    IF ~Exists(d, m.pv_id) THEN d
    ELSE [d EXCEPT !.orders = Append(@, [encounter |-> m.pv_id,
                                         filler_order_number |-> m.filler_order_number,
                                         has_results |-> FALSE])]

\* db.query(ClinicalOrder).filter_by(filler_order_number=...).first(), 0 when None
FirstOrder(d, filler) ==
    LET found == {i \in 1..Len(d.orders) : d.orders[i].filler_order_number = filler}
    IN  IF found = {} THEN 0 ELSE CHOOSE i \in found : \A j \in found : i <= j

process_oru_r01(d, m) ==
    LET order == FirstOrder(d, m.filler_order_number)
    IN  IF order = 0 THEN d
        ELSE [d EXCEPT !.orders[order].has_results = TRUE]

---------------------------------------------------------------------------
\* Ingestion

\* The lookup filtering on the wrong processing_status.
is_duplicate_message_wrong_status(log, cid) == log[cid]["FAILED"] > 0

is_duplicate_message(log, cid) == log[cid]["PROCESSED"] > 0

LogRow(log, cid, status) == [log EXCEPT ![cid][status] = @ + 1]

\* The message types the handling matrix names and the model carries.
HandledTypes == {"ADT^A01", "ADT^A03", "ADT^A11", "ORM^O01", "ORU^R01", "DFT^P03"}

process_hl7_message(d, m, cid) ==
    CASE m.message_type = "ADT^A01" -> process_adt_a01(d, m)
      [] m.message_type = "ADT^A03" -> process_adt_a03(d, m)
      [] m.message_type = "ADT^A11" -> process_cancel(d, m)
      [] m.message_type = "ORM^O01" -> process_orm_o01(d, m)
      [] m.message_type = "ORU^R01" -> process_oru_r01(d, m)
      [] m.message_type = "DFT^P03" -> PostCharges(d, m, cid)
      [] OTHER -> d

\* An unhandled message type counted as a processing error.
processing_outcome_error(m) ==
    IF m.message_type \in HandledTypes THEN "PROCESSED" ELSE "FAILED"

\* The processing_status of a message that went through the dispatch.
processing_outcome(m) ==
    IF m.message_type \in HandledTypes THEN "PROCESSED" ELSE "IGNORED"

\* The failure rolling back what the other messages of the batch have stored.
process_malformed_message_rolling_back(d, m) ==
    [d EXCEPT !.encounters = [pv \in PvIds |-> NoEncounter],
              !.charges = <<>>, !.orders = <<>>, !.packets = <<>>, !.snapshots = <<>>]

\* A message that fails to parse: its transaction is rolled back, nothing of it
\* is stored.
process_malformed_message(d, m) == d

NoRequest == [cid |-> "", existing |-> FALSE]

Idle(w) == workers[w] = NoRequest

\* existing_encounter of process_adt_a01 and encounter of process_adt_a03: the
\* result of the lookup by pv_id with which the handler starts.
LookupEncounter(d, m) ==
    /\ m.well_formed
    /\ m.message_type \in {"ADT^A01", "ADT^A03"}
    /\ Exists(d, m.pv_id)

\* pv_id indexed without uniqueness: the second row is stored.
insert_encounter_again_not_unique(d, pv) == [d EXCEPT !.encounters[pv].rows = @ + 1]

\* db.session.add(Encounter(pv_id=...)) when a row of the pv_id has been committed
\* since the lookup: the unique index on encounters.pv_id rejects the row.
insert_encounter_again(d, pv) == d

\* The request is served by the first free worker: the workers are alike.
FirstFree(w) == Idle(w) /\ (w = "w2" => ~Idle("w1"))

\* One more request or event is taken.
Accept == requests < MaxRequests /\ requests' = requests + 1

\* A delivery arrives and is checked against the log.
Receive(w, cid) ==
    /\ FirstFree(w)
    /\ Accept
    /\ IF is_duplicate_message(hl7_message_log, cid)
       THEN /\ hl7_message_log' = LogRow(hl7_message_log, cid, "DUPLICATE")
            /\ UNCHANGED workers
       ELSE /\ workers' = [workers EXCEPT
                            ![w] = [cid |-> cid,
                                    existing |-> LookupEncounter(db, Messages[cid])]]
            /\ UNCHANGED hl7_message_log
    /\ UNCHANGED <<db, sweep_todo, refreshers, frontend>>

\* The delivery is processed and its outcome logged.
Process(w) ==
    /\ ~Idle(w)
    /\ LET cid == workers[w].cid
           m == Messages[cid]
       IN  IF ~m.well_formed
           THEN /\ db' = process_malformed_message(db, m)
                /\ hl7_message_log' = LogRow(hl7_message_log, cid, "FAILED")
           ELSE IF /\ m.message_type \in {"ADT^A01", "ADT^A03"}
                   /\ ~workers[w].existing
                   /\ Exists(db, m.pv_id)
           THEN /\ db' = insert_encounter_again(db, m.pv_id)
                /\ hl7_message_log' =
                      LogRow(hl7_message_log, cid,
                             IF db' = db THEN "FAILED" ELSE "PROCESSED")
           ELSE /\ db' = process_hl7_message(db, m, cid)
                /\ hl7_message_log' = LogRow(hl7_message_log, cid, processing_outcome(m))
    /\ workers' = [workers EXCEPT ![w] = NoRequest]
    /\ UNCHANGED <<requests, sweep_todo, refreshers, frontend>>

---------------------------------------------------------------------------
\* The staleness sweep

\* Encounter.status == OPEN and Encounter.updated_at < cutoff_time
IsStale(enc) == enc.status = OPEN /\ enc.updated_at_old

\* The clock passes the cutoff of an encounter that nothing has updated.
TimePasses(pv) ==
    /\ Exists(db, pv)
    /\ ~db.encounters[pv].updated_at_old
    /\ Accept
    /\ db' = [db EXCEPT !.encounters[pv].updated_at_old = TRUE]
    /\ UNCHANGED <<hl7_message_log, workers, sweep_todo, refreshers, frontend>>

close_stale_encounter(d, pv) ==
    LET d1 == SaveEncounter(d, pv,
                [d.encounters[pv] EXCEPT
                    !.status = PENDING_CODING,
                    !.needs_review = TRUE,
                    !.review_reason =
                        "No discharge message received - auto-closed after 48 hours"])
    IN  generate_codable_packets(d1, pv)

SweepQuery ==
    /\ sweep_todo = {}
    /\ sweep_todo' = {pv \in PvIds : IsStale(db.encounters[pv])}
    /\ sweep_todo' # {}
    /\ UNCHANGED <<db, hl7_message_log, workers, requests, refreshers, frontend>>

SweepClose(pv) ==
    /\ pv \in sweep_todo
    /\ db' = close_stale_encounter(db, pv)
    /\ sweep_todo' = sweep_todo \ {pv}
    /\ UNCHANGED <<hl7_message_log, workers, requests, refreshers, frontend>>

---------------------------------------------------------------------------
\* Operator endpoints

\* The request repeated on an encounter that is ready or coded generating again.
mark_ready_to_code_again(d, pv) ==
    LET d1 == SaveEncounter(d, pv,
                [d.encounters[pv] EXCEPT
                    !.status = PENDING_CODING,
                    !.ready_to_code_reason = "manual_override"])
    IN  generate_codable_packets(d1, pv)

mark_ready_to_code(d, pv) ==
    IF d.encounters[pv].status \notin {OPEN, DISCHARGED} THEN d
    ELSE LET d1 == SaveEncounter(d, pv,
                     [d.encounters[pv] EXCEPT
                         !.status = PENDING_CODING,
                         !.ready_to_code_reason = "manual_override"])
         IN  generate_codable_packets(d1, pv)

MarkReady(pv) ==
    /\ Exists(db, pv)
    /\ Accept
    /\ db' = mark_ready_to_code(db, pv)
    /\ UNCHANGED <<hl7_message_log, workers, sweep_todo, refreshers, frontend>>

assign_queue_item(d, i) ==
    LET pv == d.packets[i].encounter
        d1 == [d EXCEPT !.packets[i].status = "ASSIGNED"]
    IN  IF d.encounters[pv].status = PENDING_CODING
        THEN SaveEncounter(d1, pv, [d.encounters[pv] EXCEPT !.status = CODING_IN_PROGRESS])
        ELSE d1

Assign(i) ==
    /\ i \in 1..Len(db.packets)
    /\ db.packets[i].status = "READY"
    /\ Accept
    /\ db' = assign_queue_item(db, i)
    /\ UNCHANGED <<hl7_message_log, workers, sweep_todo, refreshers, frontend>>

complete_queue_item(d, i) ==
    LET pv == d.packets[i].encounter
        d1 == [d EXCEPT !.packets[i].status = "COMPLETE"]
        done == \A j \in 1..Len(d1.packets) :
                    d1.packets[j].encounter = pv
                        => d1.packets[j].status \in {"COMPLETE", "CANCELLED"}
    IN  IF done /\ d.encounters[pv].status = CODING_IN_PROGRESS
        THEN SaveEncounter(d1, pv, [d.encounters[pv] EXCEPT !.status = CODING_COMPLETE])
        ELSE d1

Complete(i) ==
    /\ i \in 1..Len(db.packets)
    /\ db.packets[i].status = "ASSIGNED"
    /\ Accept
    /\ db' = complete_queue_item(db, i)
    /\ UNCHANGED <<hl7_message_log, workers, sweep_todo, refreshers, frontend>>

\* The charges a packet of the type aggregates from the encounter as it is now.
Aggregate(d, pv, type) == ChargesOf(d, pv, type) \o ChargesOf(d, pv, "BOTH")

\* The Snapshot table is keyed by (encounter, version).
VersionTaken(d, pv, v) == \E i \in SnapshotsOf(d, pv) : d.snapshots[i].version = v

refresh_snapshot(d, i, v) ==
    LET p == d.packets[i]
    IN  IF VersionTaken(d, p.encounter, v) THEN d
        ELSE [d EXCEPT
                !.snapshots = Append(@, [encounter |-> p.encounter, version |-> v,
                                         charges_data |->
                                            Aggregate(d, p.encounter, p.packet_type)]),
                !.packets[i].snapshot_version = v]

RefreshBegin(u, i) ==
    /\ refreshers[u] = NotRefreshing
    /\ u = "u2" => refreshers["u1"] # NotRefreshing
    /\ Accept
    /\ i \in 1..Len(db.packets)
    /\ db.packets[i].status \in {"READY", "ASSIGNED"}
    /\ refreshers' = [refreshers EXCEPT
                        ![u] = [item |-> i,
                                version |-> NextVersion(db, db.packets[i].encounter)]]
    /\ UNCHANGED <<db, hl7_message_log, workers, sweep_todo, frontend>>

RefreshCommit(u) ==
    /\ refreshers[u] # NotRefreshing
    /\ db' = refresh_snapshot(db, refreshers[u].item, refreshers[u].version)
    /\ refreshers' = [refreshers EXCEPT ![u] = NotRefreshing]
    /\ UNCHANGED <<hl7_message_log, workers, requests, sweep_todo, frontend>>

---------------------------------------------------------------------------
\* The front end.  A string the code compares after a case conversion is a
\* sequence of characters.

MaxRoles == 2
MaxFiles == 2
MaxUploads == 2

Upper == <<"A", "B", "C", "D", "E", "F", "G", "H", "I", "J", "K", "L", "M",
           "N", "O", "P", "Q", "R", "S", "T", "U", "V", "W", "X", "Y", "Z">>
Lower == <<"a", "b", "c", "d", "e", "f", "g", "h", "i", "j", "k", "l", "m",
           "n", "o", "p", "q", "r", "s", "t", "u", "v", "w", "x", "y", "z">>

toLowerCase_identity(s) == s

\* String.prototype.toLowerCase
toLowerCase(s) ==
    [i \in 1..Len(s) |->
        IF \E k \in 1..Len(Upper) : Upper[k] = s[i]
        THEN Lower[CHOOSE k \in 1..Len(Upper) : Upper[k] = s[i]]
        ELSE s[i]]

\* String.prototype.endsWith
endsWith(s, suffix) ==
    /\ Len(s) >= Len(suffix)
    /\ SubSeq(s, Len(s) - Len(suffix) + 1, Len(s)) = suffix

\* The sequences of at most n elements of S.
SeqsUpTo(S, n) == UNION {[1..k -> S] : k \in 0..n}

\* The role names a token carries in the behaviours explored.
RoleNames ==
    {<<"c", "o", "d", "e", "r">>, <<"C", "O", "D", "E", "R">>,
     <<"a", "d", "m", "i", "n">>, <<"A", "d", "m", "i", "n">>,
     <<"v", "i", "e", "w", "e", "r">>, <<"c", "o", "d", "e", "r", "s">>,
     <<"a", "d", "m">>, <<>>}

\* ManageDataPanel: userRoles.some(role => ['coder', 'admin'].includes(role.toLowerCase()))
hasAccess(userRoles) ==
    \E i \in 1..Len(userRoles) :
        toLowerCase(userRoles[i]) \in {<<"c", "o", "d", "e", "r">>,
                                       <<"a", "d", "m", "i", "n">>}

\* The files a user picks or drops: name and MIME type.
Files ==
    {[name |-> <<"a", ".", "H", "L", "7">>, type |-> "application/octet-stream"],
     [name |-> <<"b", ".", "t", "x", "t">>, type |-> "text/plain"],
     [name |-> <<"c", ".", "p", "d", "f">>, type |-> "application/pdf"]}

isValidType(file) ==
    \/ endsWith(toLowerCase(file.name), <<".", "h", "l", "7">>)
    \/ file.type = "text/plain"
    \/ file.type = ""

\* Array.from(files).filter(isValidType)
RECURSIVE newFiles(_)
newFiles(files) ==
    IF files = <<>> THEN <<>>
    ELSE (IF isValidType(Head(files)) THEN <<Head(files)>> ELSE <<>>)
            \o newFiles(Tail(files))

\* prev.filter((_, i) => i !== index)
without(s, index) == [i \in 1..(Len(s) - 1) |-> IF i < index THEN s[i] ELSE s[i + 1]]

\* useMutation's reset: the hook's result goes back to its initial state, and a
\* request already sent is no longer the one the hook reports on.
reset(p) ==
    [p EXCEPT !.isUploading = FALSE,
              !.uploads = [k \in DOMAIN p.uploads |->
                              [p.uploads[k] EXCEPT !.observed = FALSE]]]

Mounted == manageDataPanel.rendered = "panel"

\* The component's function body down to its first return.
Render ==
    /\ manageDataPanel.rendered = "unmounted"
    /\ manageDataPanel' =
          [manageDataPanel EXCEPT
              !.rendered = IF hasAccess(manageDataPanel.userRoles) THEN "panel" ELSE "null"]
    /\ UNCHANGED <<backend, codingPanel, splitPane, queryClient, workbench>>

handleFileSelect(files) ==
    /\ Mounted
    /\ Len(manageDataPanel.selectedFiles) + Len(files) <= MaxFiles
    /\ manageDataPanel' =
          reset([manageDataPanel EXCEPT
                    !.selectedFiles = @ \o newFiles(files)])
    /\ UNCHANGED <<backend, codingPanel, splitPane, queryClient, workbench>>

\* The Upload button's disabled attribute.
uploadDisabled(p) == Len(p.selectedFiles) = 0 \/ p.isUploading

handleUpload ==
    /\ Mounted
    /\ ~uploadDisabled(manageDataPanel)
    /\ Len(manageDataPanel.uploads) < MaxUploads
    /\ manageDataPanel' =
          IF Len(manageDataPanel.selectedFiles) = 0 THEN manageDataPanel
          ELSE [manageDataPanel EXCEPT
                  !.isUploading = TRUE,
                  !.uploads = Append(@, [files |-> manageDataPanel.selectedFiles,
                                         settled |-> FALSE, observed |-> TRUE])]
    /\ UNCHANGED <<backend, codingPanel, splitPane, queryClient, workbench>>

handleClear ==
    /\ Mounted
    /\ Len(manageDataPanel.selectedFiles) > 0
    /\ ~manageDataPanel.isUploading
    /\ manageDataPanel' = reset([manageDataPanel EXCEPT !.selectedFiles = <<>>])
    /\ UNCHANGED <<backend, codingPanel, splitPane, queryClient, workbench>>

removeFile(index) ==
    /\ Mounted
    /\ index \in 1..Len(manageDataPanel.selectedFiles)
    /\ ~manageDataPanel.isUploading
    /\ manageDataPanel' =
          [manageDataPanel EXCEPT !.selectedFiles = without(@, index)]
    /\ UNCHANGED <<backend, codingPanel, splitPane, queryClient, workbench>>

\* The server answers an upload; the hook hears of it if it still observes it.
UploadSettled(k) ==
    /\ k \in 1..Len(manageDataPanel.uploads)
    /\ ~manageDataPanel.uploads[k].settled
    /\ manageDataPanel' =
          [manageDataPanel EXCEPT
              !.uploads[k].settled = TRUE,
              !.isUploading = IF manageDataPanel.uploads[k].observed THEN FALSE ELSE @]
    /\ UNCHANGED <<backend, codingPanel, splitPane, queryClient, workbench>>

Panel(userRoles) ==
    [userRoles |-> userRoles, rendered |-> "unmounted", selectedFiles |-> <<>>,
     isUploading |-> FALSE, uploads |-> <<>>]

\* SplitPane.  Widths are percentages of the container; the mouse is at a
\* pixel offset from the container's left edge, which may lie outside it.
containerWidth == 200

MousePositions == {-40, 0, 50, 60, 80, 90, 100, 120, 140, 150, 160, 200, 260}

Max(a, b) == IF a >= b THEN a ELSE b
Min(a, b) == IF a <= b THEN a ELSE b

clamp_upper_only(lo, hi, x) == Min(hi, x)

\* Math.max(minLeftWidth, Math.min(maxLeftWidth, newLeftWidth))
clamp(lo, hi, x) == Max(lo, Min(hi, x))

Pane(defaultLeftWidth, minLeftWidth, maxLeftWidth) ==
    [minLeftWidth |-> minLeftWidth, maxLeftWidth |-> maxLeftWidth,
     leftWidth |-> defaultLeftWidth, isDragging |-> FALSE]

handleMouseDown ==
    /\ splitPane' = [splitPane EXCEPT !.isDragging = TRUE]
    /\ UNCHANGED <<backend, manageDataPanel, codingPanel, queryClient, workbench>>

handleMouseMove(mouseX) ==
    /\ splitPane' =
          IF ~splitPane.isDragging THEN splitPane
          ELSE [splitPane EXCEPT
                  !.leftWidth = clamp(splitPane.minLeftWidth, splitPane.maxLeftWidth,
                                      (mouseX * 100) \div containerWidth)]
    /\ UNCHANGED <<backend, manageDataPanel, codingPanel, queryClient, workbench>>

handleMouseUp ==
    /\ splitPane' = [splitPane EXCEPT !.isDragging = FALSE]
    /\ UNCHANGED <<backend, manageDataPanel, codingPanel, queryClient, workbench>>

\* CodingPanel with DiagnosisEntry and ProcedureEntry.  A code is its id, its
\* principal flag and its sequence number, with the fields its entry adds.
MaxCodes == 3

procedureCodeType_cpt(billingComponent) == "CPT"

procedureCodeType(billingComponent) ==
    IF billingComponent = "facility" THEN "ICD-10-PCS" ELSE "CPT"

\* crypto.randomUUID(): an id no code of the list has.
randomUUID(codes) ==
    CHOOSE n \in 1..(Len(codes) + 1) : \A i \in 1..Len(codes) : codes[i].id # n

handleAddCode(codes, fields, isPrincipal) ==
    LET newCode == fields @@ [id |-> randomUUID(codes), isPrincipal |-> isPrincipal,
                              sequence |-> IF isPrincipal THEN 1 ELSE Len(codes) + 1]
        updated == [i \in 1..Len(codes) |->
                      IF codes[i].isPrincipal
                      THEN [codes[i] EXCEPT !.isPrincipal = FALSE,
                                            !.sequence = Len(codes) + 1]
                      ELSE codes[i]]
    IN  IF isPrincipal THEN <<newCode>> \o updated ELSE Append(codes, newCode)

\* codes.map((c, i) => ({...c, sequence: c.isPrincipal ? 1 : i + 1})), the
\* index i counted from 0 there and from 1 here.
resequenced(updated) ==
    [i \in 1..Len(updated) |->
        [updated[i] EXCEPT !.sequence = IF updated[i].isPrincipal THEN 1 ELSE i]]

handleRemoveCode(codes, id) ==
    resequenced(SelectSeq(codes, LAMBDA c : c.id # id))

handleMakePrincipal_keeping(codes, id) ==
    resequenced([i \in 1..Len(codes) |->
                    [codes[i] EXCEPT !.isPrincipal = @ \/ codes[i].id = id,
                                     !.sequence = IF codes[i].id = id THEN 1 ELSE @]])

handleMakePrincipal(codes, id) ==
    resequenced([i \in 1..Len(codes) |->
                    [codes[i] EXCEPT !.isPrincipal = (codes[i].id = id),
                                     !.sequence = IF codes[i].id = id THEN 1 ELSE @]])

\* codes.find(c => c.isPrincipal) finds a code.
HasPrincipal(codes) == \E i \in 1..Len(codes) : codes[i].isPrincipal

\* The ids of the cards that show the Make principal button.
Secondary(codes) == {codes[i].id : i \in {j \in 1..Len(codes) : ~codes[j].isPrincipal}}

Ids(codes) == {codes[i].id : i \in 1..Len(codes)}

Coding(billingComponent) ==
    [billingComponent |-> billingComponent, diagnoses |-> <<>>, procedures |-> <<>>]

\* A code picked in one of the two search inputs of DiagnosisEntry; the
\* input for the principal diagnosis is shown while there is none.
AddDiagnosis(isPrincipal) ==
    /\ Len(codingPanel.diagnoses) + Len(codingPanel.procedures) < MaxCodes
    /\ isPrincipal => ~HasPrincipal(codingPanel.diagnoses)
    /\ codingPanel' = [codingPanel EXCEPT
                          !.diagnoses = handleAddCode(@, [poaIndicator |-> "Y"], isPrincipal)]
    /\ UNCHANGED <<backend, manageDataPanel, splitPane, queryClient, workbench>>

RemoveDiagnosis(id) ==
    /\ id \in Ids(codingPanel.diagnoses)
    /\ codingPanel' = [codingPanel EXCEPT !.diagnoses = handleRemoveCode(@, id)]
    /\ UNCHANGED <<backend, manageDataPanel, splitPane, queryClient, workbench>>

MakePrincipalDiagnosis(id) ==
    /\ id \in Secondary(codingPanel.diagnoses)
    /\ codingPanel' = [codingPanel EXCEPT !.diagnoses = handleMakePrincipal(@, id)]
    /\ UNCHANGED <<backend, manageDataPanel, splitPane, queryClient, workbench>>

\* The same in ProcedureEntry, whose codes carry the panel's code type.
AddProcedure(isPrincipal) ==
    /\ Len(codingPanel.diagnoses) + Len(codingPanel.procedures) < MaxCodes
    /\ isPrincipal => ~HasPrincipal(codingPanel.procedures)
    /\ codingPanel' =
          [codingPanel EXCEPT
              !.procedures =
                  handleAddCode(@, [codeType |-> procedureCodeType(codingPanel.billingComponent),
                                    procedureDate |-> "null"], isPrincipal)]
    /\ UNCHANGED <<backend, manageDataPanel, splitPane, queryClient, workbench>>

RemoveProcedure(id) ==
    /\ id \in Ids(codingPanel.procedures)
    /\ codingPanel' = [codingPanel EXCEPT !.procedures = handleRemoveCode(@, id)]
    /\ UNCHANGED <<backend, manageDataPanel, splitPane, queryClient, workbench>>

MakePrincipalProcedure(id) ==
    /\ id \in Secondary(codingPanel.procedures)
    /\ codingPanel' = [codingPanel EXCEPT !.procedures = handleMakePrincipal(@, id)]
    /\ UNCHANGED <<backend, manageDataPanel, splitPane, queryClient, workbench>>

\* CodingWorkbenchPage with the hooks of useCodingQueue, for one queue item.
\* server is the item as the workflow service holds it; queueItem is the data
\* of the query ['codingQueueItem', id] in the client cache; fetches are the
\* getQueueItem responses on their way to the client.
MaxFetches == 4
MaxVersion == 3

undefined == [status |-> "undefined", snapshot_version |-> 0]

Workbench(status) ==
    [server |-> [status |-> status, snapshot_version |-> 1],
     queueItem |-> undefined,
     fetches |-> <<[status |-> status, snapshot_version |-> 1]>>,
     begun |-> 1,
     assign |-> [status |-> "idle", issued |-> 0],
     refresh |-> [status |-> "idle"]]

\* The dependencies [queueItem?.id, queueItem?.status] of the effect differ
\* between two renders.
DepsChanged(before, after) == before.status # after.status

autoAssign_every_render(wb, before) ==
    IF wb.queueItem # undefined /\ wb.queueItem.status = "pending"
            /\ wb.assign.status # "pending"
    THEN [wb EXCEPT !.assign = [status |-> "pending", issued |-> @.issued + 1]]
    ELSE wb

\* The auto-assign effect, run after the render that follows a change of the
\* query's data; before is the data of the render before.
autoAssign(wb, before) ==
    IF DepsChanged(before, wb.queueItem)
            /\ wb.queueItem # undefined /\ wb.queueItem.status = "pending"
            /\ wb.assign.status # "pending"
    THEN [wb EXCEPT !.assign = [status |-> "pending", issued |-> @.issued + 1]]
    ELSE wb

\* queryClient.setQueryData(['codingQueueItem', itemId], data), and the render it causes.
setQueryData(wb, data) == autoAssign([wb EXCEPT !.queueItem = data], wb.queueItem)

\* A fetch of the query starts; its response carries the item as the server
\* has it.  A query has one fetch at a time: invalidateQueries cancels the
\* one under way and starts anew.
fetchQuery(wb) == [wb EXCEPT !.fetches = <<wb.server>>, !.begun = @ + 1]

\* The getQueueItem response arrives and becomes the query's data.
getQueueItemSettled ==
    /\ workbench.fetches # <<>>
    /\ workbench' = setQueryData([workbench EXCEPT !.fetches = <<>>],
                                 workbench.fetches[1])
    /\ UNCHANGED <<backend, manageDataPanel, codingPanel, splitPane, queryClient>>

\* The query refetches of its own accord (the window regains focus, the
\* network reconnects) unless it is fetching already.
refetch ==
    /\ workbench.fetches = <<>>
    /\ workbench.begun < MaxFetches
    /\ workbench' = fetchQuery(workbench)
    /\ UNCHANGED <<backend, manageDataPanel, codingPanel, splitPane, queryClient>>

\* useAssignQueueItem: the assign request is answered; onSuccess invalidates
\* the query, which refetches.
assignQueueItemSettled(ok) ==
    /\ workbench.assign.status = "pending"
    /\ ok => (workbench.server.status = "pending" /\ workbench.begun < MaxFetches)
    /\ workbench' =
          IF ok
          THEN fetchQuery([workbench EXCEPT !.server.status = "in_progress",
                                            !.assign.status = "success"])
          ELSE [workbench EXCEPT !.assign.status = "error"]
    /\ UNCHANGED <<backend, manageDataPanel, codingPanel, splitPane, queryClient>>

handleRefreshSnapshot ==
    /\ workbench.queueItem # undefined
    /\ workbench.refresh.status # "pending"
    /\ workbench.server.snapshot_version < MaxVersion
    /\ workbench' = [workbench EXCEPT !.refresh.status = "pending"]
    /\ UNCHANGED <<backend, manageDataPanel, codingPanel, splitPane, queryClient>>

\* useRefreshSnapshot: the server stores the next snapshot version and
\* answers with the item; onSuccess puts the answer into the cache.
refreshSnapshotSettled ==
    /\ workbench.refresh.status = "pending"
    /\ LET refreshed == [workbench.server EXCEPT !.snapshot_version = @ + 1]
       IN  workbench' = setQueryData([workbench EXCEPT !.server = refreshed,
                                                      !.refresh.status = "success"],
                                    refreshed)
    /\ UNCHANGED <<backend, manageDataPanel, codingPanel, splitPane, queryClient>>

\* The browser session: localStorage, the QueryClient's cache, and the
\* components that call useAuth.  Each call of useAuth has its own token
\* state and its own observer of the query ['currentUser']; a token is named
\* by the tenant it is issued for.
Hooks == {"LoginPage", "ProtectedRoute", "Page"}
Tenants == {"A", "B"}
DataKeys == {"encounters", "codingQueue", "codingQueueItem", "codingResults", "dashboard"}

NoQuery == [tenant |-> "none", isInvalidated |-> FALSE]

Session ==
    [access_token |-> "null",
     mounted |-> {"LoginPage"},
     token |-> [h \in Hooks |-> "null"],
     user |-> [h \in Hooks |-> "undefined"],
     currentUser |-> [data |-> "undefined", fetching |-> FALSE],
     queries |-> [key \in DataKeys |-> NoQuery]]

\* isAuthenticated: !!token && !!user
isAuthenticated(q, h) == q.token[h] # "null" /\ q.user[h] = "user"

\* isLoading of the hook's query: enabled, fetching, and without data.
isLoading(q, h) ==
    q.token[h] # "null" /\ q.currentUser.fetching /\ q.user[h] = "undefined"

\* A component mounts: useState reads localStorage, useQuery reads the cache.
mount(q, h) ==
    [q EXCEPT !.mounted = @ \cup {h},
              !.token[h] = q.access_token,
              !.user[h] = q.currentUser.data,
              !.currentUser.fetching = @ \/ q.access_token # "null"]

\* ProtectedRoute's render: Loading..., the redirect to /login, or the children.
ProtectedRoute(q) ==
    IF "ProtectedRoute" \notin q.mounted THEN q
    ELSE IF isLoading(q, "ProtectedRoute")
         THEN [q EXCEPT !.mounted = {"ProtectedRoute"}]
    ELSE IF ~isAuthenticated(q, "ProtectedRoute")
         THEN mount([q EXCEPT !.mounted = {}], "LoginPage")
    ELSE IF "Page" \in q.mounted THEN q
    ELSE mount(q, "Page")

\* queryClient.invalidateQueries({queryKey: [key]}) for a data query.
invalidateQueries(queries, key) ==
    [queries EXCEPT ![key].isInvalidated = @ \/ queries[key].tenant # "none"]

\* loginMutation succeeds.
login(t) ==
    /\ "LoginPage" \in queryClient.mounted
    /\ queryClient.token["LoginPage"] = "null"
    /\ queryClient' = [queryClient EXCEPT !.access_token = t,
                                          !.token["LoginPage"] = t,
                                          !.currentUser.fetching = TRUE]
    /\ UNCHANGED <<backend, manageDataPanel, codingPanel, splitPane, workbench>>

\* GET /users/me is answered; the observers of the hooks whose query is
\* enabled hear of it.
getCurrentUserSettled ==
    /\ queryClient.currentUser.fetching
    /\ LET data == IF queryClient.access_token # "null" THEN "user" ELSE "undefined"
       IN  queryClient' =
              ProtectedRoute(
                [queryClient EXCEPT
                    !.currentUser = [data |-> data, fetching |-> FALSE],
                    !.user = [h \in Hooks |->
                                IF h \in queryClient.mounted /\ queryClient.token[h] # "null"
                                THEN data ELSE @[h]]])
    /\ UNCHANGED <<backend, manageDataPanel, codingPanel, splitPane, workbench>>

\* LoginPage's effect: navigate('/dashboard') once isAuthenticated.
navigate ==
    /\ "LoginPage" \in queryClient.mounted
    /\ isAuthenticated(queryClient, "LoginPage")
    /\ queryClient' =
          ProtectedRoute(mount([queryClient EXCEPT !.mounted = {}], "ProtectedRoute"))
    /\ UNCHANGED <<backend, manageDataPanel, codingPanel, splitPane, workbench>>

\* A data query of the page fetches under the token in localStorage.
fetchData(key) ==
    /\ "Page" \in queryClient.mounted
    /\ queryClient.access_token # "null"
    /\ queryClient' = [queryClient EXCEPT
                          !.queries[key] = [tenant |-> queryClient.access_token,
                                            isInvalidated |-> FALSE]]
    /\ UNCHANGED <<backend, manageDataPanel, codingPanel, splitPane, workbench>>

\* The invalidations of switchTenantMutation.onSuccess for the data queries.
invalidate_on_switch(queries) == invalidateQueries(queries, "encounters")

\* switchTenantMutation succeeds, called from the page's TenantSwitcher.
switchTenant(t) ==
    /\ "Page" \in queryClient.mounted
    /\ queryClient.access_token # "null"
    /\ queryClient.token["Page"] \notin {"null", t}
    /\ queryClient' = [queryClient EXCEPT
                          !.access_token = t,
                          !.token["Page"] = t,
                          !.currentUser.fetching = TRUE,
                          !.queries = invalidate_on_switch(@)]
    /\ UNCHANGED <<backend, manageDataPanel, codingPanel, splitPane, workbench>>

\* useAuth.logout as the page's hook runs it: queryClient.clear() removes the
\* queries without telling their observers.
logout(q) ==
    [q EXCEPT !.access_token = "null",
              !.token["Page"] = "null",
              !.user["Page"] = "undefined",
              !.currentUser = [data |-> "undefined", fetching |-> FALSE],
              !.queries = [key \in DataKeys |-> NoQuery]]

\* The Logout button of a page.
Logout ==
    /\ "Page" \in queryClient.mounted
    /\ queryClient' = ProtectedRoute(logout(queryClient))
    /\ UNCHANGED <<backend, manageDataPanel, codingPanel, splitPane, workbench>>

\* Another tab of the browser removes the token: the storage event reaches
\* every hook of this window.
handleStorageChange(newValue) ==
    /\ queryClient.access_token # newValue
    /\ queryClient' =
          ProtectedRoute(
            [queryClient EXCEPT !.access_token = newValue,
                                !.token = [h \in Hooks |->
                                              IF h \in queryClient.mounted
                                              THEN newValue ELSE @[h]]])
    /\ UNCHANGED <<backend, manageDataPanel, codingPanel, splitPane, workbench>>

\* The front end before anybody has touched it.
InitClient ==
    /\ manageDataPanel = Panel(<<>>)
    /\ codingPanel = Coding("facility")
    /\ splitPane = Pane(50, 30, 70)
    /\ queryClient = Session
    /\ workbench = Workbench("pending")

---------------------------------------------------------------------------

InitServer ==
    /\ db = [encounters |-> [pv \in PvIds |-> NoEncounter],
             charges |-> <<>>, orders |-> <<>>, packets |-> <<>>, snapshots |-> <<>>]
    /\ hl7_message_log = [c \in ControlIds |-> [s \in ProcessingStatus |-> 0]]
    /\ workers = [w \in Workers |-> NoRequest]
    /\ requests = 0
    /\ sweep_todo = {}
    /\ refreshers = [u \in Operators |-> NotRefreshing]

Init == InitServer /\ InitClient

Background ==
    \/ \E pv \in PvIds : TimePasses(pv)
    \/ SweepQuery
    \/ \E pv \in PvIds : SweepClose(pv)
    \/ \E pv \in PvIds : MarkReady(pv)
    \/ \E i \in 1..Len(db.packets) : Assign(i)
    \/ \E i \in 1..Len(db.packets) : Complete(i)
    \/ \E u \in Operators, i \in 1..Len(db.packets) : RefreshBegin(u, i)
    \/ \E u \in Operators : RefreshCommit(u)

Next ==
    \/ \E w \in Workers, cid \in ControlIds : Receive(w, cid)
    \/ \E w \in Workers : Process(w)
    \/ Background

Spec == Init /\ [][Next]_vars

\* Ingestion as the file upload runs it: one message after the other.
ReceiveInTurn(w, cid) == (\A x \in Workers : Idle(x)) /\ Receive(w, cid)

NextInTurn ==
    \/ \E w \in Workers, cid \in ControlIds : ReceiveInTurn(w, cid)
    \/ \E w \in Workers : Process(w)
    \/ Background

SpecInTurn == Init /\ [][NextInTurn]_vars

\* Charge postings of any content for visit V1, after its admission: the FT1
\* segment has or has not a revenue code, a modifier, a performing provider.
PostCharge(rev, mod, npi) ==
    /\ \A w \in Workers : Idle(w)
    /\ Len(db.charges) < MaxCharges
    /\ db' = PostCharges(db, Message("DFT^P03", "V1", TRUE, "", "",
                                     <<FT1(rev, mod, npi, FALSE)>>), "MSG004")
    /\ UNCHANGED <<hl7_message_log, workers, requests, sweep_todo, refreshers, frontend>>

NextCharges ==
    \/ \E w \in Workers : ReceiveInTurn(w, "MSG001")
    \/ \E w \in Workers : Process(w)
    \/ \E rev \in BOOLEAN, mod \in {"", "26", "TC"},
          npi \in {"", "NPI_EMP", "NPI_IND", "NPI_UNKNOWN"} : PostCharge(rev, mod, npi)

SpecCharges == Init /\ [][NextCharges]_vars

\* ManageDataPanel under every role list a token can carry.
InitRoles ==
    /\ InitServer
    /\ manageDataPanel \in {Panel(r) : r \in SeqsUpTo(RoleNames, MaxRoles)}
    /\ codingPanel = Coding("facility")
    /\ splitPane = Pane(50, 30, 70)
    /\ queryClient = Session
    /\ workbench = Workbench("pending")

SpecRoles == InitRoles /\ [][Render]_vars

\* ManageDataPanel in use: files picked, removed, cleared and uploaded.
InitUpload ==
    /\ InitServer
    /\ manageDataPanel \in {Panel(<<r>>) : r \in RoleNames}
    /\ codingPanel = Coding("facility")
    /\ splitPane = Pane(50, 30, 70)
    /\ queryClient = Session
    /\ workbench = Workbench("pending")

NextUpload ==
    \/ Render
    \/ \E files \in SeqsUpTo(Files, MaxFiles) : handleFileSelect(files)
    \/ handleUpload
    \/ handleClear
    \/ \E index \in 1..MaxFiles : removeFile(index)
    \/ \E k \in 1..MaxUploads : UploadSettled(k)

SpecUpload == InitUpload /\ [][NextUpload]_vars

\* SplitPane with a default width inside its limits, dragged anywhere.
InitSplit ==
    /\ InitServer
    /\ manageDataPanel = Panel(<<>>)
    /\ codingPanel = Coding("facility")
    /\ splitPane \in {Pane(d, lo, hi) : d \in {40, 50, 60},
                                       lo \in {10, 30, 40}, hi \in {60, 70, 90}}
    /\ queryClient = Session
    /\ workbench = Workbench("pending")

NextSplit ==
    \/ handleMouseDown
    \/ \E mouseX \in MousePositions : handleMouseMove(mouseX)
    \/ handleMouseUp

SpecSplit == InitSplit /\ [][NextSplit]_vars

\* The coding panel of a queue item of either billing component.
InitCoding ==
    /\ InitServer
    /\ manageDataPanel = Panel(<<>>)
    /\ codingPanel \in {Coding("facility"), Coding("professional")}
    /\ splitPane = Pane(50, 30, 70)
    /\ queryClient = Session
    /\ workbench = Workbench("pending")

NextCoding ==
    \/ \E isPrincipal \in BOOLEAN : AddDiagnosis(isPrincipal)
    \/ \E id \in 1..MaxCodes : RemoveDiagnosis(id)
    \/ \E id \in 1..MaxCodes : MakePrincipalDiagnosis(id)
    \/ \E isPrincipal \in BOOLEAN : AddProcedure(isPrincipal)
    \/ \E id \in 1..MaxCodes : RemoveProcedure(id)
    \/ \E id \in 1..MaxCodes : MakePrincipalProcedure(id)

SpecCoding == InitCoding /\ [][NextCoding]_vars

\* The workbench opened on a queue item of any status.
InitWorkbench ==
    /\ InitServer
    /\ manageDataPanel = Panel(<<>>)
    /\ codingPanel = Coding("facility")
    /\ splitPane = Pane(50, 30, 70)
    /\ queryClient = Session
    /\ workbench \in {Workbench(st) : st \in {"pending", "in_progress", "completed"}}

NextWorkbench ==
    \/ getQueueItemSettled
    \/ refetch
    \/ \E ok \in BOOLEAN : assignQueueItemSettled(ok)
    \/ handleRefreshSnapshot
    \/ refreshSnapshotSettled

SpecWorkbench == InitWorkbench /\ [][NextWorkbench]_vars

\* One browser window from the login page on.
NextSession ==
    \/ login("A")
    \/ getCurrentUserSettled
    \/ navigate
    \/ \E key \in DataKeys : fetchData(key)
    \/ \E t \in Tenants : switchTenant(t)
    \/ Logout
    \/ handleStorageChange("null")

SpecSession == Init /\ [][NextSession]_vars

---------------------------------------------------------------------------
\* Properties

Status(pv) == db.encounters[pv].status

LineItemsFrom(d, cid) == {i \in 1..Len(d.charges) : d.charges[i].source = cid}

PacketsOf(d, pv, type) ==
    {i \in 1..Len(d.packets) :
        d.packets[i].encounter = pv /\ d.packets[i].packet_type = type}

C2_ReadinessOnce ==
    \A pv \in PvIds, type \in PacketType :
        db.encounters[pv].ready_to_code_reason = ""
            => Cardinality(PacketsOf(db, pv, type)) <= 1

\* C3: Monotonic status.  No step moves an encounter backward in the order
\* open, discharged, ready to code, (coding in progress,) coded.
StatusRank(st) ==
    CASE st = OPEN -> 1
      [] st = DISCHARGED -> 2
      [] st = PENDING_CODING -> 3
      [] st = CODING_IN_PROGRESS -> 4
      [] st = CODING_COMPLETE -> 5
      [] OTHER -> 0

C3_MonotonicStatus ==
    [][\A pv \in PvIds :
        StatusRank(Status(pv)) > 0 /\ StatusRank(db'.encounters[pv].status) > 0
            => StatusRank(db'.encounters[pv].status) >= StatusRank(Status(pv))]_vars

\* C4: Atomic check-and-record.  Of the deliveries of one control id, concurrent
\* ones included, at most one is classified new and processed.
C4_AtomicLedger ==
    \A cid \in ControlIds : hl7_message_log[cid]["PROCESSED"] <= 1

\* C5: Never reprocessed.  Once a control id is recorded with an outcome, processed
\* or error, no later delivery of it is processed again: it has one such row.
C5_NeverReprocessed ==
    \A cid \in ControlIds :
        hl7_message_log[cid]["PROCESSED"] + hl7_message_log[cid]["FAILED"] <= 1

\* C6: The sweep only flags.  A step of the staleness sweep changes the status of
\* an encounter only from open or discharged to stale, and creates no packet and
\* no snapshot.
C6_SweepOnlyFlags ==
    [][sweep_todo' # sweep_todo =>
        /\ \A pv \in PvIds :
              db'.encounters[pv].status # Status(pv) =>
                  /\ Status(pv) \in {OPEN, DISCHARGED}
                  /\ db'.encounters[pv].status = "STALE"
        /\ db'.packets = db.packets
        /\ db'.snapshots = db.snapshots]_vars

\* C7: Snapshot immutability.  No step, a refresh or a late charge included,
\* changes the content of a snapshot version that has been issued.
C7_SnapshotImmutable ==
    [][\A i \in 1..Len(db.snapshots) :
        /\ i <= Len(db'.snapshots)
        /\ db'.snapshots[i] = db.snapshots[i]]_vars

C9_StaleNeedsOperator ==
    \A pv \in PvIds :
        /\ db.encounters[pv].review_reason =
              "No discharge message received - auto-closed after 48 hours"
        /\ Status(pv) = PENDING_CODING
        => db.encounters[pv].ready_to_code_reason \in {"manual_override", "timeout_manual"}

\* C10: Cancellation is terminal.  No step changes the status of a cancelled
\* encounter or creates a packet or a snapshot for it.
C10_CancelTerminal ==
    [][\A pv \in PvIds :
        Status(pv) = CANCELLED =>
            /\ db'.encounters[pv].status = CANCELLED
            /\ \A type \in PacketType : PacketsOf(db', pv, type) = PacketsOf(db, pv, type)
            /\ SnapshotsOf(db', pv) = SnapshotsOf(db, pv)]_vars

\* The worker w finishes, in this step, the processing of a well-formed message
\* of the type.
Processes(w, type) ==
    /\ workers[w] # NoRequest
    /\ workers'[w] = NoRequest
    /\ Messages[workers[w].cid].well_formed
    /\ Messages[workers[w].cid].message_type = type

EncounterView(d, pv) ==
    LET Mine(x) == x.encounter = pv
        Content(snap) ==
            [version |-> snap.version,
             charges_data |-> [k \in 1..Len(snap.charges_data) |->
                                  d.charges[snap.charges_data[k]]]]
        mine == SelectSeq(d.snapshots, Mine)
    IN  [encounter |-> d.encounters[pv],
         charges |-> SelectSeq(d.charges, Mine),
         orders |-> SelectSeq(d.orders, Mine),
         packets |-> SelectSeq(d.packets, Mine),
         snapshots |-> [k \in 1..Len(mine) |-> Content(mine[k])]]

\* The two messages, processed one after the other, leave every visit the same
\* whichever goes first.
Commute(d, c1, m1, c2, m2) ==
    LET d12 == process_hl7_message(process_hl7_message(d, m1, c1), m2, c2)
        d21 == process_hl7_message(process_hl7_message(d, m2, c2), m1, c1)
    IN  \A pv \in PvIds : EncounterView(d12, pv) = EncounterView(d21, pv)

\* The messages of visit V1, one of each content, and the same messages sent for
\* visit V2.
VisitIds == {"MSG001", "MSG002", "MSG004", "MSG005", "MSG007", "MSG009", "MSG010"}

\* No request is in flight: the stored data is what the requests so far have left.
Quiescent ==
    /\ \A w \in Workers : Idle(w)
    /\ \A u \in Operators : refreshers[u] = NotRefreshing
    /\ sweep_todo = {}

ForOtherVisit(m) == [m EXCEPT !.pv_id = "V2"]

\* The same, the order and the result of V2 carrying a filler order number of
\* their own.
ForOtherVisitOwnOrder(m) ==
    [m EXCEPT !.pv_id = "V2",
              !.filler_order_number = IF @ = "" THEN "" ELSE "F2"]

always_create_facility == TRUE
always_create_professional == FALSE

\* A line item a message brought for the encounter names a performing physician.
QualifyingPhysician(d, pv) ==
    \E i \in 1..Len(d.charges) :
        /\ d.charges[i].encounter = pv
        /\ d.charges[i].source # "EM"
        /\ d.charges[i].performing_provider_npi # ""

\* C13: Routing on readiness.  An encounter that is ready to code has a facility
\* packet (the setting is on), and it has a professional packet exactly when
\* always_create_professional is set or one of its line items names a performing
\* or interpreting physician (no message of the model carries a service line).
C13_Routing ==
    \A pv \in PvIds :
        Status(pv) = PENDING_CODING =>
            /\ always_create_facility => PacketsOf(db, pv, "FACILITY") # {}
            /\ PacketsOf(db, pv, "PROFEE") # {}
                  <=> (always_create_professional \/ QualifyingPhysician(db, pv))

C16_OrderResultLinkage ==
    \A r \in ControlIds :
        Messages[r].message_type = "ORU^R01" /\ hl7_message_log[r]["PROCESSED"] >= 1 =>
            \A i \in 1..Len(db.orders) :
                db.orders[i].filler_order_number = Messages[r].filler_order_number
                    => db.orders[i].has_results

\* C17: One encounter per visit identifier.  No pv_id has more than one Encounter
\* row, also when two messages of a visit that has no encounter yet are processed
\* at the same time.
C17_OneEncounterPerVisit ==
    \A pv \in PvIds : db.encounters[pv].rows <= 1

\* Two requests looked the visit up before either had created its encounter: one
\* created it, the other's row was rejected and its message logged as failed.
C17_Witness ==
    \E cid \in ControlIds :
        /\ Messages[cid].well_formed
        /\ Messages[cid].message_type \in {"ADT^A01", "ADT^A03"}
        /\ hl7_message_log[cid]["FAILED"] >= 1
        /\ db.encounters[Messages[cid].pv_id].rows = 1

EmployedProvider(c) ==
    /\ c.performing_provider_npi \in DOMAIN NPIProvider
    /\ NPIProvider[c.performing_provider_npi] = "HOSPITAL_EMPLOYED"

\* The line items the charge postings created.
PostedCharges == {i \in 1..Len(db.charges) : db.charges[i].source # "EM"}

\* C19 as stated: classification by fixed priority.  A revenue code gives
\* facility; otherwise modifier 26 gives professional; otherwise modifier TC gives
\* facility; otherwise the line item is facility, whoever performed it.
C19_DefaultFacility ==
    \A i \in PostedCharges :
        LET c == db.charges[i]
        IN  /\ c.revenue_code => c.charge_type = "FACILITY"
            /\ ~c.revenue_code /\ c.procedure_modifier = "26" => c.charge_type = "PROFEE"
            /\ ~c.revenue_code /\ c.procedure_modifier = "TC" => c.charge_type = "FACILITY"
            /\ ~c.revenue_code /\ c.procedure_modifier \notin {"26", "TC"}
                  => c.charge_type = "FACILITY"

\* C19, amended: a revenue code gives facility; otherwise modifier 26 gives
\* professional; otherwise modifier TC gives facility; otherwise a hospital-employed
\* performing provider gives BOTH; otherwise the line item is facility.
C19_ChargeType ==
    \A i \in PostedCharges :
        LET c == db.charges[i]
        IN  /\ c.revenue_code => c.charge_type = "FACILITY"
            /\ ~c.revenue_code /\ c.procedure_modifier = "26" => c.charge_type = "PROFEE"
            /\ ~c.revenue_code /\ c.procedure_modifier = "TC" => c.charge_type = "FACILITY"
            /\ ~c.revenue_code /\ c.procedure_modifier \notin {"26", "TC"}
                  => c.charge_type = IF EmployedProvider(c) THEN "BOTH" ELSE "FACILITY"

\* Two line items were classified: one with a revenue code and modifier 26, by an
\* employed provider, and one with neither revenue code nor modifier, by an
\* employed provider.
C19_Witness ==
    /\ \E i \in PostedCharges :
          /\ db.charges[i].revenue_code
          /\ db.charges[i].procedure_modifier = "26"
          /\ EmployedProvider(db.charges[i])
          /\ db.charges[i].charge_type = "FACILITY"
    /\ \E i \in PostedCharges :
          /\ ~db.charges[i].revenue_code
          /\ db.charges[i].procedure_modifier = ""
          /\ EmployedProvider(db.charges[i])
          /\ db.charges[i].charge_type = "BOTH"

---------------------------------------------------------------------------
\* C21: ManageDataPanel renders its upload UI exactly when one of the user's
\* roles is coder or admin in any letter case; for every other role list,
\* the empty one included, it renders nothing.
IsCoderOrAdmin(role) ==
    \/ /\ Len(role) = 5
       /\ role[1] \in {"c", "C"} /\ role[2] \in {"o", "O"} /\ role[3] \in {"d", "D"}
       /\ role[4] \in {"e", "E"} /\ role[5] \in {"r", "R"}
    \/ /\ Len(role) = 5
       /\ role[1] \in {"a", "A"} /\ role[2] \in {"d", "D"} /\ role[3] \in {"m", "M"}
       /\ role[4] \in {"i", "I"} /\ role[5] \in {"n", "N"}

---------------------------------------------------------------------------
\* C22: the Upload button is enabled only when at least one file is
\* selected and no upload is in flight, and no upload request is ever issued
\* with an empty file list.
UploadInFlight == \E k \in 1..Len(manageDataPanel.uploads) : ~manageDataPanel.uploads[k].settled

C22_UploadButton ==
    /\ (Mounted /\ ~uploadDisabled(manageDataPanel))
            => (Len(manageDataPanel.selectedFiles) >= 1 /\ ~UploadInFlight)
    /\ \A k \in 1..Len(manageDataPanel.uploads) : manageDataPanel.uploads[k].files # <<>>

---------------------------------------------------------------------------
\* C30: with a default width inside [minLeftWidth, maxLeftWidth], the left
\* width of SplitPane stays inside these limits whatever mouse-down,
\* mouse-move and mouse-up events arrive, and a step taken while no drag is
\* in progress, a mouse-move among them, leaves the width as it is.
C30_WidthInLimits ==
    /\ [](/\ splitPane.leftWidth >= splitPane.minLeftWidth
          /\ splitPane.leftWidth <= splitPane.maxLeftWidth)
    /\ [][~splitPane.isDragging => splitPane'.leftWidth = splitPane.leftWidth]_vars

\* A drag has moved the divider to the lower limit from a mouse position
\* left of it, and the button is released.
C30_Witness ==
    /\ splitPane.minLeftWidth = 30
    /\ splitPane.maxLeftWidth = 70
    /\ splitPane.leftWidth = 30
    /\ ~splitPane.isDragging

---------------------------------------------------------------------------
\* C24: every procedure code the coding panel holds carries code type
\* ICD-10-PCS when the billing component is facility and CPT when it is
\* professional, whatever was added, removed or made principal.
C24_ProcedureCodeType ==
    \A i \in 1..Len(codingPanel.procedures) :
        /\ codingPanel.billingComponent = "facility"
                => codingPanel.procedures[i].codeType = "ICD-10-PCS"
        /\ codingPanel.billingComponent = "professional"
                => codingPanel.procedures[i].codeType = "CPT"

\* A facility item with a principal procedure that was added as a secondary one.
C24_Witness ==
    /\ codingPanel.billingComponent = "facility"
    /\ Len(codingPanel.procedures) = 2
    /\ codingPanel.procedures[2].isPrincipal
    /\ codingPanel.procedures[2].codeType = "ICD-10-PCS"

---------------------------------------------------------------------------
\* C26: after any sequence of add, remove and make-principal operations no
\* two codes of a list share a sequence number.
DistinctSequences(codes) ==
    \A i, j \in 1..Len(codes) : i # j => codes[i].sequence # codes[j].sequence

C26_DistinctSequences ==
    /\ DistinctSequences(codingPanel.diagnoses)
    /\ DistinctSequences(codingPanel.procedures)

---------------------------------------------------------------------------
\* C27: starting from empty lists, at most one diagnosis and at most one
\* procedure is marked principal, and a principal code has sequence 1.
OnePrincipal(codes) ==
    /\ \A i, j \in 1..Len(codes) : codes[i].isPrincipal /\ codes[j].isPrincipal => i = j
    /\ \A i \in 1..Len(codes) : codes[i].isPrincipal => codes[i].sequence = 1

C27_OnePrincipal ==
    /\ OnePrincipal(codingPanel.diagnoses)
    /\ OnePrincipal(codingPanel.procedures)

\* The principal diagnosis was replaced by a secondary one made principal.
C27_Witness ==
    /\ Len(codingPanel.diagnoses) = 2
    /\ codingPanel.diagnoses[1].id = 1
    /\ ~codingPanel.diagnoses[1].isPrincipal
    /\ codingPanel.diagnoses[2].isPrincipal

---------------------------------------------------------------------------
\* C23: when the workbench loads a queue item whose status is pending it
\* issues an assign request; it issues none for an item of another status;
\* and it issues none, a failed one included, while the item's status stays
\* the same.
C23_AutoAssign ==
    [][LET before == workbench.queueItem
           after == workbench'.queueItem
           issues == workbench'.assign.issued # workbench.assign.issued
       IN  /\ (before = undefined /\ after # undefined /\ after.status = "pending")
                    => workbench'.assign.issued = workbench.assign.issued + 1
           /\ issues => after.status = "pending"
           /\ issues => before.status # after.status]_vars

\* The one assign request failed, and later responses brought the item again,
\* still pending.
C23_Witness ==
    /\ workbench.assign = [status |-> "error", issued |-> 1]
    /\ workbench.queueItem.status = "pending"
    /\ workbench.begun = MaxFetches
    /\ workbench.fetches = <<>>

---------------------------------------------------------------------------
\* C28: once a refresh-snapshot request has succeeded the cached queue item
\* carries the refreshed version, and no response of a fetch started earlier
\* puts an older snapshot version in its place.
C28_RefreshedStays ==
    [][(workbench.queueItem # undefined /\ workbench.refresh.status = "success")
            => workbench'.queueItem.snapshot_version
                    >= workbench.queueItem.snapshot_version]_vars

---------------------------------------------------------------------------
\* C25: a successful tenant switch leaves no query result fetched under the
\* previous tenant in the client cache as valid data: after the step that
\* replaces the token by one of another tenant, every cached data query
\* holds data of the new tenant or is invalidated.
C25_TenantSwitch ==
    [][(/\ queryClient.access_token # "null"
        /\ queryClient'.access_token # "null"
        /\ queryClient'.access_token # queryClient.access_token)
            => \A key \in DataKeys :
                    \/ queryClient'.queries[key].tenant
                            \in {"none", queryClient'.access_token}
                    \/ queryClient'.queries[key].isInvalidated]_vars

---------------------------------------------------------------------------
\* C29: a protected route shows its children only while its hook holds a
\* token and a user; and while no token is stored, after a logout,
\* isAuthenticated is false in every mounted component that uses useAuth and
\* no protected page is shown.
C29_Logout ==
    /\ "Page" \in queryClient.mounted => isAuthenticated(queryClient, "ProtectedRoute")
    /\ queryClient.access_token = "null"
            => /\ \A h \in queryClient.mounted : ~isAuthenticated(queryClient, h)
               /\ "Page" \notin queryClient.mounted

====
